---------------------------- MODULE Spec2Model ----------------------------
(***************************************************************************)
(* Model of the subnet calculator core of subnetter-app:                   *)
(*   parse_ip_and_mask, wildcard_from_netmask and compute_subnet of        *)
(*   src/subnetter/core/calculator.py, together with the behaviour of the  *)
(*   Python ipaddress calls they make.                                     *)
(*                                                                         *)
(* Text is a sequence of one-character strings.  A Python int that may     *)
(* need more than 31 bits (an address, total_hosts, usable_hosts) is a     *)
(* pair <<hi, lo>> standing for hi * 2^16 + lo with 0 <= lo < 2^16; hi is  *)
(* negative for a negative number.  Small ints (a prefix, an octet) are    *)
(* plain integers.                                                         *)
(***************************************************************************)
EXTENDS Integers, Sequences, FiniteSets, TLC

VARIABLES
    ip_input,      \* first argument of parse_ip_and_mask (text)
    mask_input,    \* second argument of parse_ip_and_mask (text or None)
    pc,            \* "call", "parsed", "computed", "raised"
    ret,           \* <<>> or <<[ip, prefix]>>: value returned by parse_ip_and_mask
    exc,           \* <<>> or <<[cls, msg]>>: exception that left the call
    info,          \* <<>> or <<SubnetInfo record>>: value returned by compute_subnet
    wild,          \* <<>> or <<word>>: value of the latest wildcard_from_netmask call
    wcalls,        \* number of wildcard_from_netmask calls chained on info.netmask
    manual,        \* <<>> or <<result>>: outcome of manual_compute_subnet on the inputs
    last_ip,       \* main: remembered IP text, or None
    last_mask,     \* main: remembered mask text, or None
    ip_entry,      \* main: ip_in, the IP text waiting for its mask
    event,         \* main: outcome of the latest input() call
    printed,       \* main: what the latest step printed
    hist_ip,       \* history: IP text of the latest successfully parsed entry
    hist_mask      \* history: mask text of the latest successfully parsed entry
                   \* that supplied a mask

calcvars == <<ip_input, mask_input, pc, ret, exc, info, wild, wcalls, manual>>

loopvars == <<last_ip, last_mask, ip_entry, event, printed, hist_ip, hist_mask>>

vars == <<calcvars, loopvars>>

---------------------------------------------------------------------------
(* Python int arithmetic on <<hi, lo>> pairs                               *)

Limb == 2^16

Norm(h, l) == <<h + (l \div Limb), l % Limb>>

PyInt(n) == Norm(0, n)

PyAdd(a, b) == Norm(a[1] + b[1], a[2] + b[2])

PySub(a, b) == Norm(a[1] - b[1], a[2] - b[2])

PyLt(a, b) == a[1] < b[1] \/ (a[1] = b[1] /\ a[2] < b[2])

PyLe(a, b) == a = b \/ PyLt(a, b)

PyMax(a, b) == IF PyLt(a, b) THEN b ELSE a

RECURSIVE BitAnd(_, _)
BitAnd(x, y) ==
    IF x = 0 \/ y = 0 THEN 0
    ELSE (x % 2) * (y % 2) + 2 * BitAnd(x \div 2, y \div 2)

RECURSIVE BitOr(_, _)
BitOr(x, y) ==
    IF x = 0 THEN y
    ELSE IF y = 0 THEN x
    ELSE (IF (x % 2) + (y % 2) > 0 THEN 1 ELSE 0) + 2 * BitOr(x \div 2, y \div 2)

RECURSIVE BitXor(_, _)
BitXor(x, y) ==
    IF x = 0 THEN y
    ELSE IF y = 0 THEN x
    ELSE (((x % 2) + (y % 2)) % 2) + 2 * BitXor(x \div 2, y \div 2)

\* a & b, a | b, a ^ b for non-negative a, b
PyAnd(a, b) == <<BitAnd(a[1], b[1]), BitAnd(a[2], b[2])>>

PyOr(a, b) == <<BitOr(a[1], b[1]), BitOr(a[2], b[2])>>

PyXor(a, b) == <<BitXor(a[1], b[1]), BitXor(a[2], b[2])>>

\* a >> n for 0 <= a < 2^32 and 0 <= n <= 32
PyShr(a, n) ==
    IF n >= 16 THEN <<0, a[1] \div (2^(n - 16))>>
    ELSE <<a[1] \div (2^n), (a[1] % (2^n)) * (2^(16 - n)) + (a[2] \div (2^n))>>

\* 1 << n for 0 <= n <= 32
PyShl1(n) == IF n < 16 THEN <<0, 2^n>> ELSE <<2^(n - 16), 0>>

\* 0xFFFFFFFF
ALL_ONES == <<Limb - 1, Limb - 1>>

\* _max_prefixlen of the IPv4 classes; the 32 of host_bits = 32 - prefix
MaxPrefixLen == 32

---------------------------------------------------------------------------
(* Text                                                                    *)

None == <<"None">>

DigitChars == <<"0", "1", "2", "3", "4", "5", "6", "7", "8", "9">>

IsDigit(c) == \E d \in 1..10 : DigitChars[d] = c

DigitVal(c) == (CHOOSE d \in 1..10 : DigitChars[d] = c) - 1

Whitespace == {" ", "\t"}

\* str.isascii() and str.isdigit()
IsAsciiDigits(s) == Len(s) > 0 /\ \A i \in 1..Len(s) : IsDigit(s[i])

\* int(s, 10) of a text of decimal digits
RECURSIVE DecVal(_)
DecVal(s) ==
    IF Len(s) = 0 THEN 0
    ELSE 10 * DecVal(SubSeq(s, 1, Len(s) - 1)) + DigitVal(s[Len(s)])

\* str(n) of a small non-negative int
RECURSIVE DecStr(_)
DecStr(n) ==
    IF n < 10 THEN <<DigitChars[n + 1]>>
    ELSE Append(DecStr(n \div 10), DigitChars[(n % 10) + 1])

\* c in s
Contains(s, c) == \E i \in 1..Len(s) : s[i] = c

\* s.strip()
RECURSIVE LStrip(_)
LStrip(s) ==
    IF Len(s) > 0 /\ s[1] \in Whitespace THEN LStrip(Tail(s)) ELSE s

RECURSIVE RStrip(_)
RStrip(s) ==
    IF Len(s) > 0 /\ s[Len(s)] \in Whitespace
    THEN RStrip(SubSeq(s, 1, Len(s) - 1)) ELSE s

Strip(s) == RStrip(LStrip(s))

\* s.split(c)
RECURSIVE Split(_, _)
Split(s, c) ==
    IF ~Contains(s, c) THEN <<s>>
    ELSE LET k == CHOOSE i \in 1..Len(s) :
                     s[i] = c /\ \A j \in 1..(i - 1) : s[j] # c
         IN  <<SubSeq(s, 1, k - 1)>> \o Split(SubSeq(s, k + 1, Len(s)), c)

\* sep.join(parts)
RECURSIVE Join(_, _)
Join(parts, sep) ==
    IF Len(parts) = 0 THEN <<>>
    ELSE IF Len(parts) = 1 THEN parts[1]
    ELSE parts[1] \o <<sep>> \o Join(Tail(parts), sep)

\* s.startswith(c)
StartsWith(s, c) == Len(s) > 0 /\ s[1] = c

---------------------------------------------------------------------------
(* Results of calls that may raise                                         *)

Ok(v) == [raised |-> FALSE, cls |-> "", msg |-> "", val |-> v]

Raise(c, m) == [raised |-> TRUE, cls |-> c, msg |-> m, val |-> <<>>]

\* the statements K after a call whose result is r: skipped when it raised
Then(r, K(_)) == IF r.raised THEN r ELSE K(r.val)

\* try: a  except: b
OrElse(a, b) == IF a.raised THEN b ELSE a

\* try: a  except: pass;  try: b  except: pass;  raise c
FirstOk(a, b, c) == IF ~a.raised THEN a ELSE IF ~b.raised THEN b ELSE c

---------------------------------------------------------------------------
(* The ipaddress calls made by the calculator: IPv4                        *)

\* _parse_octet without the check of the octet's range
OctetInRange_Any(octet_int) == Ok(octet_int)

OctetInRange(octet_int) ==
    IF octet_int > 255 THEN Raise("ValueError", "Octet (> 255) not permitted")
    ELSE Ok(octet_int)

\* IPv4Address._parse_octet
ParseOctet(o) ==
    IF Len(o) = 0 THEN Raise("ValueError", "Empty octet not permitted")
    ELSE IF ~IsAsciiDigits(o)
    THEN Raise("ValueError", "Only decimal digits permitted")
    ELSE IF Len(o) > 3 THEN Raise("ValueError", "At most 3 characters permitted")
    ELSE IF o # <<"0">> /\ o[1] = "0"
    THEN Raise("ValueError", "Leading zeros are not permitted")
    ELSE OctetInRange(DecVal(o))

\* int.from_bytes(parsed octets, 'big'); a ValueError of the first bad octet
\* becomes an AddressValueError
IntFromOctets(p) ==
    IF \E i \in 1..4 : p[i].raised
    THEN LET k == CHOOSE i \in 1..4 :
                      p[i].raised /\ \A j \in 1..(i - 1) : ~p[j].raised
         IN  Raise("AddressValueError", p[k].msg)
    ELSE Ok(<<p[1].val * 256 + p[2].val, p[3].val * 256 + p[4].val>>)

IpIntFromParts(octets) ==
    IF Len(octets) # 4 THEN Raise("AddressValueError", "Expected 4 octets")
    ELSE IntFromOctets([i \in 1..4 |-> ParseOctet(octets[i])])

\* IPv4Address._ip_int_from_string
IpIntFromString(s) ==
    IF Len(s) = 0 THEN Raise("AddressValueError", "Address cannot be empty")
    ELSE IpIntFromParts(Split(s, "."))

\* ipaddress.IPv4Address(text)
IPv4AddressFromText(s) ==
    IF Contains(s, "/") THEN Raise("AddressValueError", "Unexpected '/'")
    ELSE IpIntFromString(s)

\* IPv4Address._check_int_address, for IPv4Address(int)
IPv4AddressFromInt(n) ==
    IF PyLt(n, PyInt(0))
    THEN Raise("AddressValueError", "(< 0) is not permitted as an IPv4 address")
    ELSE IF PyLt(ALL_ONES, n)
    THEN Raise("AddressValueError", "(>= 2**32) is not permitted as an IPv4 address")
    ELSE Ok(n)

\* str(IPv4Address): '.'.join(map(str, ip_int.to_bytes(4, 'big')))
StringFromIpInt(w) ==
    Join(<<DecStr(w[1] \div 256), DecStr(w[1] % 256),
           DecStr(w[2] \div 256), DecStr(w[2] % 256)>>, ".")

\* number of zero bits on the right of a positive 16-bit limb
RECURSIVE TrailingZeroes(_)
TrailingZeroes(x) == IF x % 2 = 1 THEN 0 ELSE 1 + TrailingZeroes(x \div 2)

Min(a, b) == IF a < b THEN a ELSE b

\* ipaddress._count_righthand_zero_bits
CountRighthandZeroBits(number, bits) ==
    IF number = PyInt(0) THEN bits
    ELSE Min(bits, IF number[2] # 0 THEN TrailingZeroes(number[2])
                   ELSE 16 + TrailingZeroes(number[1]))

\* _BaseNetwork._ip_int_from_prefix
IpIntFromPrefix(prefixlen) == PyXor(ALL_ONES, PyShr(ALL_ONES, prefixlen))

\* _BaseNetwork._prefix_from_ip_int, given the count of trailing zeroes
PrefixFromZeroes(ip_int, trailing_zeroes) ==
    IF PyShr(ip_int, trailing_zeroes)
           # PySub(PyShl1(MaxPrefixLen - trailing_zeroes), PyInt(1))
    THEN Raise("ValueError", "Netmask pattern mixes zeroes & ones")
    ELSE Ok(MaxPrefixLen - trailing_zeroes)

\* _BaseNetwork._prefix_from_ip_int
PrefixFromIpInt(ip_int) ==
    PrefixFromZeroes(ip_int, CountRighthandZeroBits(ip_int, MaxPrefixLen))

NotANetmask == Raise("NetmaskValueError", "is not a valid netmask")

PrefixInRange(prefixlen, maxlen) ==
    IF ~(0 <= prefixlen /\ prefixlen <= maxlen) THEN NotANetmask
    ELSE Ok(prefixlen)

\* _BaseNetwork._prefix_from_prefix_string, for a maximum prefix length maxlen
PrefixFromPrefixString(s, maxlen) ==
    IF ~IsAsciiDigits(s) THEN NotANetmask ELSE PrefixInRange(DecVal(s), maxlen)

\* _prefix_from_ip_string that tries the hostmask before the netmask
PrefixFromIpString_HostmaskFirst(s) ==
    Then(OrElse(IpIntFromString(s), NotANetmask),
         LAMBDA ip_int : FirstOk(PrefixFromIpInt(PyXor(ip_int, ALL_ONES)),
                                 PrefixFromIpInt(ip_int),
                                 NotANetmask))

\* _BaseNetwork._prefix_from_ip_string: a netmask, else a hostmask
PrefixFromIpString(s) ==
    Then(OrElse(IpIntFromString(s), NotANetmask),
         LAMBDA ip_int : FirstOk(PrefixFromIpInt(ip_int),
                                 PrefixFromIpInt(PyXor(ip_int, ALL_ONES)),
                                 NotANetmask))

\* _make_netmask that reads its argument only as a prefix length
MakeNetmaskFromText_PrefixOnly(arg) == PrefixFromPrefixString(arg, MaxPrefixLen)

\* IPv4Network._make_netmask for a text argument: the prefix length
MakeNetmaskFromText(arg) ==
    OrElse(PrefixFromPrefixString(arg, MaxPrefixLen), PrefixFromIpString(arg))

\* IPv4Network._make_netmask for an int argument: the prefix length
MakeNetmaskFromInt(arg) == PrefixInRange(arg, MaxPrefixLen)

\* network_address that keeps the host bits of the address
NetworkAddress_HostBitsKept(packed, netmask) == packed

\* network_address of IPv4Network(..., strict=False)
NetworkAddress(packed, netmask) ==
    IF PyAnd(packed, netmask) # packed THEN PyAnd(packed, netmask) ELSE packed

NetworkOfMask(network, netmask, prefixlen) ==
    [network_address   |-> network,
     netmask           |-> netmask,
     prefixlen         |-> prefixlen,
     broadcast_address |-> PyOr(network, PyXor(netmask, ALL_ONES))]

NetworkOf(address, netmask, prefixlen) ==
    NetworkOfMask(NetworkAddress(address, netmask), netmask, prefixlen)

\* IPv4Network((address, prefixlen), strict=False) once the address and the
\* prefix length are known: network_address, netmask, broadcast_address
IPv4Network(address, prefixlen) ==
    NetworkOf(address, IpIntFromPrefix(prefixlen), prefixlen)

SplitResult(addr) ==
    IF Len(addr) > 2 THEN Raise("AddressValueError", "Only one '/' permitted")
    ELSE Ok(addr)

\* _split_addr_prefix / _split_optional_netmask of a text
SplitAddrPrefix(s) == SplitResult(Split(s, "/"))

\* the prefix length of the parts of a text split at '/'
PrefixOfParts(parts) ==
    IF Len(parts) > 1 THEN MakeNetmaskFromText(parts[2])
    ELSE MakeNetmaskFromInt(MaxPrefixLen)

InterfaceOfParts(parts) ==
    Then(IPv4AddressFromText(parts[1]),
         LAMBDA ip : Then(PrefixOfParts(parts),
                          LAMBDA plen : Ok([ip |-> ip, prefixlen |-> plen,
                                            version |-> 4])))

\* ipaddress.IPv4Interface(text): the interface address and the prefix length
IPv4Interface(s) == Then(SplitAddrPrefix(s), InterfaceOfParts)

\* ipaddress.IPv4Network(text, strict=False)
IPv4NetworkFromText(s) ==
    Then(IPv4Interface(s), LAMBDA i : Ok(IPv4Network(i.ip, i.prefixlen)))

---------------------------------------------------------------------------
(* The ipaddress calls made by the calculator: IPv6 and the factories      *)

HexChars ==
    {"0", "1", "2", "3", "4", "5", "6", "7", "8", "9",
     "a", "b", "c", "d", "e", "f", "A", "B", "C", "D", "E", "F"}

\* IPv6Address._parse_hextet does not raise
HextetOk(h) ==
    Len(h) > 0 /\ Len(h) <= 4 /\ \A i \in 1..Len(h) : h[i] \in HexChars

\* the hextet checks of IPv6Address._ip_int_from_string on the parts between
\* ':', an IPv4 tail already replaced by two hextets
IPv6PartsOk(parts) ==
    LET n == Len(parts)
        skips == {i \in 2..(n - 1) : parts[i] = <<>>}
        skip_index == (CHOOSE i \in skips : TRUE) - 1
        parts_hi == IF parts[1] = <<>> THEN skip_index - 1 ELSE skip_index
        parts_lo == IF parts[n] = <<>> THEN n - skip_index - 2
                    ELSE n - skip_index - 1
    IN  /\ n <= 9
        /\ Cardinality(skips) <= 1
        /\ IF skips # {}
           THEN /\ parts[1] = <<>> => parts_hi = 0
                /\ parts[n] = <<>> => parts_lo = 0
                /\ 8 - (parts_hi + parts_lo) >= 1
                /\ \A i \in 1..parts_hi : HextetOk(parts[i])
                /\ \A i \in (n - parts_lo + 1)..n : HextetOk(parts[i])
           ELSE /\ n = 8
                /\ \A i \in 1..n : HextetOk(parts[i])

IPv6SplitOk(parts) ==
    /\ Len(parts) >= 3
    /\ IF Contains(parts[Len(parts)], ".")
       THEN /\ ~IPv4AddressFromText(parts[Len(parts)]).raised
            /\ IPv6PartsOk(SubSeq(parts, 1, Len(parts) - 1)
                               \o << <<"0">>, <<"0">> >>)
       ELSE IPv6PartsOk(parts)

\* IPv6Address._ip_int_from_string does not raise
IPv6IpIntOk(s) == Len(s) > 0 /\ IPv6SplitOk(Split(s, ":"))

\* IPv6Address._split_scope_id does not raise, and then the address is valid
IPv6ScopedOk(p) ==
    /\ Len(p) > 1 => (Len(p) = 2 /\ Len(p[2]) > 0)
    /\ IPv6IpIntOk(p[1])

\* ipaddress.IPv6Address(text) does not raise
IPv6AddressOk(s) == ~Contains(s, "/") /\ IPv6ScopedOk(Split(s, "%"))

IPv6PrefixOfParts(parts) ==
    IF Len(parts) > 1 THEN PrefixFromPrefixString(parts[2], 128) ELSE Ok(128)

IPv6InterfaceOfParts(parts) ==
    IF ~IPv6AddressOk(parts[1])
    THEN Raise("AddressValueError", "not an IPv6 address")
    ELSE Then(IPv6PrefixOfParts(parts),
              LAMBDA plen : Ok([ip |-> PyInt(0), prefixlen |-> plen,
                                version |-> 6]))

\* ipaddress.IPv6Interface(text); IPv6Network(text, strict=False) accepts the
\* same texts with the same prefix length
IPv6Interface(s) == Then(SplitAddrPrefix(s), IPv6InterfaceOfParts)

\* ipaddress.ip_interface(text)
ip_interface(s) ==
    FirstOk(IPv4Interface(s), IPv6Interface(s),
            Raise("ValueError", "does not appear to be an IPv4 or IPv6 interface"))

\* ipaddress.ip_network(text, strict=False)
ip_network(s) ==
    FirstOk(IPv4NetworkFromText(s), IPv6Interface(s),
            Raise("ValueError", "does not appear to be an IPv4 or IPv6 network"))

PyIntOfBody(body, negative) ==
    IF /\ Len(body) > 0
       /\ \A i \in 1..Len(body) :
             \/ IsDigit(body[i])
             \/ /\ body[i] = "_"
                /\ 1 < i /\ i < Len(body)
                /\ IsDigit(body[i - 1]) /\ IsDigit(body[i + 1])
    THEN Ok(IF negative THEN 0 - DecVal(SelectSeq(body, IsDigit))
            ELSE DecVal(SelectSeq(body, IsDigit)))
    ELSE Raise("ValueError", "invalid literal for int() with base 10")

PyIntOfStripped(t) ==
    IF StartsWith(t, "-") \/ StartsWith(t, "+")
    THEN PyIntOfBody(Tail(t), StartsWith(t, "-"))
    ELSE PyIntOfBody(t, FALSE)

\* int(text)
PyIntFromText(s) == PyIntOfStripped(Strip(s))

---------------------------------------------------------------------------
(* src/subnetter/core/calculator.py                                        *)

ZeroNetSlash == <<"0", ".", "0", ".", "0", ".", "0", "/">>

MissingMask == "Missing subnet mask. Provide dotted mask or use IP/CIDR."

\* lines 27-29 without the isinstance check
CombinedResult_AnyFamily(iface) ==
    Ok([ip |-> iface.ip, prefix |-> iface.prefixlen])

\* lines 27-29: the interface's address must be an IPv4Address
CombinedResult(iface) ==
    IF iface.version # 4
    THEN Raise("ValueError", "IPv6 is not supported in this tool.")
    ELSE Ok([ip |-> iface.ip, prefix |-> iface.prefixlen])

\* lines 26-29: the combined form "A/P"
ParseCombined(ip_text) == Then(ip_interface(ip_text), CombinedResult)

\* lines 37-40 without the range check
ParseSlashMask_NoRange(ip, mask_raw) ==
    Then(PyIntFromText(Tail(mask_raw)),
         LAMBDA prefix : Ok([ip |-> ip, prefix |-> prefix]))

\* lines 37-40: a mask that starts with '/'
ParseSlashMask(ip, mask_raw) ==
    Then(PyIntFromText(Tail(mask_raw)),
         LAMBDA prefix :
             IF ~(0 <= prefix /\ prefix <= 32)
             THEN Raise("ValueError", "CIDR must be between /0 and /32.")
             ELSE Ok([ip |-> ip, prefix |-> prefix]))

\* lines 42-43: any other mask
ParseDottedMask(ip, mask_raw) ==
    Then(ip_network(ZeroNetSlash \o mask_raw),
         LAMBDA dummy : Ok([ip |-> ip, prefix |-> dummy.prefixlen]))

\* lines 36-43 without the startswith("/") branch
ParseMask_NoSlash(ip, mask_raw) == ParseDottedMask(ip, mask_raw)

\* lines 36-43: the stripped mask
ParseMask(ip, mask_raw) ==
    IF StartsWith(mask_raw, "/") THEN ParseSlashMask(ip, mask_raw)
    ELSE ParseDottedMask(ip, mask_raw)

\* lines 34-43 with the mask validated before the address
ParseSeparate_MaskFirst(ip_text, mask_in) ==
    Then(ParseMask(PyInt(0), Strip(mask_in)),
         LAMBDA r : Then(IPv4AddressFromText(ip_text),
                         LAMBDA ip : Ok([ip |-> ip, prefix |-> r.prefix])))

\* lines 34-43: the address, then the separate mask
ParseSeparate(ip_text, mask_in) ==
    Then(IPv4AddressFromText(ip_text), LAMBDA ip : ParseMask(ip, Strip(mask_in)))

\* parse_ip_and_mask that validates the address before it looks for the mask
parse_ip_and_mask_AddressFirst(ip_in, mask_in) ==
    LET ip_text == Strip(ip_in)
    IN  IF Contains(ip_text, "/") /\ mask_in = None THEN ParseCombined(ip_text)
        ELSE Then(IPv4AddressFromText(ip_text),
                  LAMBDA ip : IF mask_in = None THEN Raise("ValueError", MissingMask)
                              ELSE ParseMask(ip, Strip(mask_in)))

\* parse_ip_and_mask that takes an empty mask for an absent one
parse_ip_and_mask_EmptyIsNone(ip_in, mask_in) ==
    LET ip_text == Strip(ip_in)
        absent == mask_in = None \/ mask_in = <<>>
    IN  IF Contains(ip_text, "/") /\ absent THEN ParseCombined(ip_text)
        ELSE IF absent THEN Raise("ValueError", MissingMask)
        ELSE ParseSeparate(ip_text, mask_in)

parse_ip_and_mask(ip_in, mask_in) ==
    LET ip_text == Strip(ip_in)
    IN  IF Contains(ip_text, "/") /\ mask_in = None THEN ParseCombined(ip_text)
        ELSE IF mask_in = None THEN Raise("ValueError", MissingMask)
        ELSE ParseSeparate(ip_text, mask_in)

\* wildcard_from_netmask with ~int(mask), which is negative
wildcard_from_netmask_Not(mask) ==
    IPv4AddressFromInt(PySub(PyInt(0), PyAdd(mask, PyInt(1))))

\* wildcard_from_netmask with 0x00FFFFFF for 0xFFFFFFFF
wildcard_from_netmask_Low24(mask) ==
    IPv4AddressFromInt(PyXor(mask, <<255, Limb - 1>>))

wildcard_from_netmask(mask) == IPv4AddressFromInt(PyXor(mask, ALL_ONES))

\* lines 67-69 with the guard total >= 8
GeneralRange_Guard8(network, broadcast, total) ==
    Then(IF PyLe(PyInt(8), total) THEN IPv4AddressFromInt(PyAdd(network, PyInt(1)))
         ELSE Ok(network),
         LAMBDA first :
             Then(IF PyLe(PyInt(8), total)
                  THEN IPv4AddressFromInt(PySub(broadcast, PyInt(1)))
                  ELSE Ok(broadcast),
                  LAMBDA last :
                      Ok([usable     |-> PyMax(PySub(total, PyInt(2)), PyInt(0)),
                          first_host |-> first,
                          last_host  |-> last])))

\* lines 67-69: the general branch
GeneralRange(network, broadcast, total) ==
    Then(IF PyLe(PyInt(4), total) THEN IPv4AddressFromInt(PyAdd(network, PyInt(1)))
         ELSE Ok(network),
         LAMBDA first :
             Then(IF PyLe(PyInt(4), total)
                  THEN IPv4AddressFromInt(PySub(broadcast, PyInt(1)))
                  ELSE Ok(broadcast),
                  LAMBDA last :
                      Ok([usable     |-> PyMax(PySub(total, PyInt(2)), PyInt(0)),
                          first_host |-> first,
                          last_host  |-> last])))

\* the general branch without the +1 / -1
HostRange_NoStep(ip, prefix, network, broadcast, total) ==
    IF prefix = 32
    THEN Ok([usable |-> PyInt(1), first_host |-> ip, last_host |-> ip])
    ELSE IF prefix = 31
    THEN Ok([usable |-> PyInt(2), first_host |-> network, last_host |-> broadcast])
    ELSE Ok([usable |-> PyMax(PySub(total, PyInt(2)), PyInt(0)),
             first_host |-> network, last_host |-> broadcast])

\* the branches without the prefix == 31 case
HostRange_No31(ip, prefix, network, broadcast, total) ==
    IF prefix = 32
    THEN Ok([usable |-> PyInt(1), first_host |-> ip, last_host |-> ip])
    ELSE GeneralRange(network, broadcast, total)

\* the branches without the prefix == 32 case
HostRange_No32(ip, prefix, network, broadcast, total) ==
    IF prefix = 31
    THEN Ok([usable |-> PyInt(2), first_host |-> network, last_host |-> broadcast])
    ELSE GeneralRange(network, broadcast, total)

\* lines 59-69: usable, first_host, last_host
HostRange(ip, prefix, network, broadcast, total) ==
    IF prefix = 32
    THEN Ok([usable |-> PyInt(1), first_host |-> ip, last_host |-> ip])
    ELSE IF prefix = 31
    THEN Ok([usable |-> PyInt(2), first_host |-> network, last_host |-> broadcast])
    ELSE GeneralRange(network, broadcast, total)

\* the record with the network address in the ip field
SubnetInfo_NetworkEcho(ip, prefix, net, wildcard, hr) ==
    [ip           |-> StringFromIpInt(net.network_address),
     cidr         |-> prefix,
     network      |-> StringFromIpInt(net.network_address),
     broadcast    |-> StringFromIpInt(net.broadcast_address),
     netmask      |-> StringFromIpInt(net.netmask),
     wildcard     |-> StringFromIpInt(wildcard),
     first_host   |-> StringFromIpInt(hr.first_host),
     last_host    |-> StringFromIpInt(hr.last_host),
     total_hosts  |-> PyShl1(MaxPrefixLen - prefix),
     usable_hosts |-> hr.usable,
     host_bits    |-> MaxPrefixLen - prefix]

\* lines 71-83: the record
SubnetInfo(ip, prefix, net, wildcard, hr) ==
    [ip           |-> StringFromIpInt(ip),
     cidr         |-> prefix,
     network      |-> StringFromIpInt(net.network_address),
     broadcast    |-> StringFromIpInt(net.broadcast_address),
     netmask      |-> StringFromIpInt(net.netmask),
     wildcard     |-> StringFromIpInt(wildcard),
     first_host   |-> StringFromIpInt(hr.first_host),
     last_host    |-> StringFromIpInt(hr.last_host),
     total_hosts  |-> PyShl1(MaxPrefixLen - prefix),
     usable_hosts |-> hr.usable,
     host_bits    |-> MaxPrefixLen - prefix]

\* lines 52-83, net being the IPv4Network of line 51
SubnetOfNetwork(ip, prefix, net) ==
    Then(wildcard_from_netmask(net.netmask),
         LAMBDA wildcard :
             Then(HostRange(ip, prefix, net.network_address,
                            net.broadcast_address, PyShl1(MaxPrefixLen - prefix)),
                  LAMBDA hr : Ok(SubnetInfo(ip, prefix, net, wildcard, hr))))

compute_subnet(ip, prefix) ==
    Then(MakeNetmaskFromInt(prefix),
         LAMBDA plen : SubnetOfNetwork(ip, prefix, IPv4Network(ip, prefix)))

---------------------------------------------------------------------------
(* src/subnetter_v4.py: the bitwise path                                   *)

\* (a << n) & 0xFFFFFFFF for 0 <= a < 2^32 and n >= 0
PyShlMasked(a, n) ==
    IF n >= 32 THEN <<0, 0>>
    ELSE IF n >= 16 THEN <<(a[2] % (2^(32 - n))) * (2^(n - 16)), 0>>
    ELSE <<(a[1] % (2^(16 - n))) * (2^n) + (a[2] \div (2^(16 - n))),
           (a[2] % (2^(16 - n))) * (2^n)>>

\* int_to_ip: the four low bytes of n
int_to_ip(n) ==
    Join(<<DecStr((n[1] \div 256) % 256), DecStr(n[1] % 256),
           DecStr((n[2] \div 256) % 256), DecStr(n[2] % 256)>>, ".")

\* dotted_mask_to_prefix
dotted_mask_to_prefix(mask) ==
    OrElse(Then(ip_network(ZeroNetSlash \o mask), LAMBDA net : Ok(net.prefixlen)),
           Raise("ValueError", "Non-contiguous or invalid mask"))

\* lines 142-145: the prefix of the mask text
ManualPrefix(mask) ==
    IF StartsWith(mask, "/") THEN PyIntFromText(Tail(mask))
    ELSE dotted_mask_to_prefix(mask)

\* line 148 with the shift by prefix instead of 32 - prefix
ManualMaskInt_ShiftByPrefix(prefix) ==
    IF prefix > 0 THEN PyShlMasked(ALL_ONES, prefix) ELSE PyInt(0)

\* line 148: mask_int, for prefix <= 32
ManualMaskInt(prefix) ==
    IF prefix > 0 THEN PyShlMasked(ALL_ONES, MaxPrefixLen - prefix) ELSE PyInt(0)

\* line 152: broadcast_int
ManualBroadcast(network_int, host_bits) ==
    PyAnd(PyOr(network_int, PySub(PyShl1(host_bits), PyInt(1))), ALL_ONES)

\* lines 154-163: first, last, usable
ManualHostRange(ip_int, prefix, network_int, broadcast_int, total) ==
    IF prefix = 32
    THEN [usable |-> PyInt(1), first_host |-> ip_int, last_host |-> ip_int]
    ELSE IF prefix = 31
    THEN [usable |-> PyInt(2), first_host |-> network_int,
          last_host |-> broadcast_int]
    ELSE [usable |-> PyMax(PySub(total, PyInt(2)), PyInt(0)),
          first_host |-> IF PyLe(PyInt(4), total)
                         THEN PyAdd(network_int, PyInt(1)) ELSE network_int,
          last_host  |-> IF PyLe(PyInt(4), total)
                         THEN PySub(broadcast_int, PyInt(1)) ELSE broadcast_int]

\* lines 165-181: the record; (~netmask_int) & 0xFFFFFFFF is
\* 0xFFFFFFFF - netmask_int for 0 <= netmask_int < 2^32
ManualInfo(ip, prefix, mask_int, network_int, broadcast_int, hr) ==
    [ip           |-> StringFromIpInt(ip),
     cidr         |-> prefix,
     network      |-> int_to_ip(network_int),
     broadcast    |-> int_to_ip(broadcast_int),
     netmask      |-> int_to_ip(mask_int),
     wildcard     |-> int_to_ip(PySub(ALL_ONES, mask_int)),
     first_host   |-> int_to_ip(hr.first_host),
     last_host    |-> int_to_ip(hr.last_host),
     total_hosts  |-> PyShl1(MaxPrefixLen - prefix),
     usable_hosts |-> hr.usable,
     host_bits    |-> MaxPrefixLen - prefix]

ManualOfRange(ip, prefix, mask_int, network_int, broadcast_int) ==
    ManualInfo(ip, prefix, mask_int, network_int, broadcast_int,
               ManualHostRange(ip, prefix, network_int, broadcast_int,
                               PyShl1(MaxPrefixLen - prefix)))

ManualOfNetwork(ip, prefix, mask_int, network_int) ==
    ManualOfRange(ip, prefix, mask_int, network_int,
                  ManualBroadcast(network_int, MaxPrefixLen - prefix))

ManualOfMask(ip, prefix, mask_int) ==
    ManualOfNetwork(ip, prefix, mask_int, PyAnd(ip, mask_int))

\* lines 147-181; 0xFFFFFFFF << (32 - prefix) raises for prefix > 32
ManualOfPrefix(ip, prefix) ==
    IF prefix > MaxPrefixLen THEN Raise("ValueError", "negative shift count")
    ELSE Ok(ManualOfMask(ip, prefix, ManualMaskInt(prefix)))

ManualOfAddress(ip, mask) ==
    IF mask = None
    THEN Raise("AttributeError", "'NoneType' object has no attribute 'startswith'")
    ELSE Then(ManualPrefix(mask), LAMBDA prefix : ManualOfPrefix(ip, prefix))

manual_compute_subnet(ip_str, mask_str_or_cidr) ==
    Then(IPv4AddressFromText(ip_str),
         LAMBDA ip : ManualOfAddress(ip, mask_str_or_cidr))

---------------------------------------------------------------------------
(* Inputs of the calls                                                     *)

\* number of addresses of AddrPool the calls are made with
NumAddrs == 5

AddrPool ==
    << <<192, 168, 1, 10>>, <<10, 0, 0, 1>>, <<255, 255, 255, 255>>,
       <<0, 0, 0, 0>>, <<172, 16, 0, 1>>, <<8, 8, 8, 8>>, <<127, 255, 255, 254>> >>

Addrs == {AddrPool[i] : i \in 1..Min(NumAddrs, Len(AddrPool))}

Prefixes == 0..32

\* dotted-decimal text of four octets
TextOfOctets(o) ==
    Join(<<DecStr(o[1]), DecStr(o[2]), DecStr(o[3]), DecStr(o[4])>>, ".")

\* the 32-bit value of four octets
WordOfOctets(o) == <<o[1] * 256 + o[2], o[3] * 256 + o[4]>>

\* octet i (1..4) of the mask with the top p bits set
NetmaskOctet(p, i) ==
    IF p >= 8 * i THEN 255
    ELSE IF p <= 8 * (i - 1) THEN 0
    ELSE 256 - 2^(8 * i - p)

NetmaskOctets(p) == [i \in 1..4 |-> NetmaskOctet(p, i)]

HostmaskOctets(p) == [i \in 1..4 |-> 255 - NetmaskOctet(p, i)]

\* four-octet masks whose bits are neither ones-then-zeroes nor zeroes-then-ones
MixedMasks ==
    { <<255, 0, 255, 0>>, <<255, 255, 0, 255>>, <<0, 255, 0, 0>>,
      <<255, 255, 255, 253>>, <<128, 0, 0, 1>>, <<0, 0, 1, 0>> }

Slash == <<"/">>

CidrText(a, p) == a \o Slash \o p

\* address texts without '/'
PlainIps ==
    {TextOfOctets(a) : a \in Addrs}
    \cup { <<"9", "9", "9", ".", "0", ".", "0", ".", "1">>,
           <<"1", "0", ".", "0", ".", "0">>,
           <<"1", "0", ".", "0", ".", "0", ".", "0", "1">>,
           <<"1", ".", "2", ".", "3", ".", "4", ".", "5">>,
           <<"a", ".", "b", ".", "c", ".", "d">>,
           <<"2", "0", "0", "1", ":", "d", "b", "8", ":", ":", "1">>,
           <<>>,
           <<" ", "1", "0", ".", "0", ".", "0", ".", "1", " ">> }

\* texts right of a '/', other than the prefixes 0..32
OddPrefixes ==
    { <<"3", "3">>, <<"-", "1">>, <<"a", "b", "c">>, <<>>, <<" ", "8">>,
      <<"+", "8">>, <<"0", "8">>, <<"3", "_", "2">>, <<"8", "/", "9">>,
      <<"1", "2", "8">> }

\* texts right of a '/' tried with the addresses of OddCidrAddrs, besides "8"
OddV6Prefixes ==
    { <<"1", "2", "9">>, <<"1", "2", "8">>, <<"3", "3">>, <<"a", "b", "c">>, <<>> }

\* texts left of a '/', other than the addresses of Addrs
OddCidrAddrs ==
    { <<"9", "9", "9", ".", "0", ".", "0", ".", "1">>,
      <<"1", "0", ".", "0", ".", "0">>,
      <<>>,
      <<"2", "0", "0", "1", ":", "d", "b", "8", ":", ":">>,
      <<":", ":", "1">>,
      <<"1", ":", ":", "2", ":", ":", "3">> }

DottedMasks ==
    {TextOfOctets(NetmaskOctets(p)) : p \in Prefixes}
    \cup {TextOfOctets(HostmaskOctets(p)) : p \in Prefixes}
    \cup {TextOfOctets(m) : m \in MixedMasks}

\* first arguments containing '/'
CidrIps ==
    {CidrText(TextOfOctets(a), DecStr(p)) : a \in Addrs, p \in Prefixes}
    \cup {CidrText(TextOfOctets(AddrPool[1]), q) : q \in OddPrefixes \cup DottedMasks}
    \cup {CidrText(a, <<"8">>) : a \in OddCidrAddrs}
    \cup {CidrText(a, q) : a \in OddCidrAddrs, q \in OddV6Prefixes}
    \cup { <<" ">> \o CidrText(TextOfOctets(AddrPool[2]), <<"2", "4">>) \o <<" ">> }

\* second arguments other than None
MaskTexts ==
    {Slash \o DecStr(p) : p \in Prefixes}
    \cup {Slash \o q : q \in OddPrefixes}
    \cup DottedMasks
    \cup { <<>>, <<"2", "4">>, <<"3", "3">>, <<"2", "5", "5", ".", "2", "5", "5", ".", "0">>,
           <<"2", "5", "5", ".", "2", "5", "5", ".", "2", "5", "5", ".", "2", "5", "6">>,
           <<" ", "/", "8", " ">>, <<" ", "2", "5", "5", ".", "0", ".", "0", ".", "0">>,
           Slash \o TextOfOctets(NetmaskOctets(24)) }

\* second arguments tried with a first argument containing '/'
CidrMaskArgs == {None, <<>>, <<"/", "8">>, TextOfOctets(NetmaskOctets(24))}

---------------------------------------------------------------------------
(* The calls                                                               *)

\* main, lines 138-139, before the first prompt
LoopStart ==
    /\ last_ip = None
    /\ last_mask = None
    /\ ip_entry = <<>>
    /\ event = [kind |-> "none", prompt |-> "", text |-> <<>>]
    /\ printed = [kind |-> "nothing", text |-> ""]
    /\ hist_ip = None
    /\ hist_mask = None

Init ==
    /\ \/ ip_input \in PlainIps /\ mask_input \in MaskTexts \cup {None}
       \/ ip_input \in CidrIps /\ mask_input \in CidrMaskArgs
    /\ pc = "call"
    /\ ret = <<>>
    /\ exc = <<>>
    /\ info = <<>>
    /\ wild = <<>>
    /\ wcalls = 0
    /\ manual = <<>>
    /\ LoopStart

\* the call of parse_ip_and_mask ends with the result r
ParseEnds(r) ==
    IF r.raised
    THEN /\ pc' = "raised"
         /\ exc' = <<[cls |-> r.cls, msg |-> r.msg]>>
         /\ ret' = ret
    ELSE /\ pc' = "parsed"
         /\ ret' = <<r.val>>
         /\ exc' = exc

\* ip, prefix = parse_ip_and_mask(ip_input, mask_input)
ParseIpAndMask ==
    /\ pc = "call"
    /\ ParseEnds(parse_ip_and_mask(ip_input, mask_input))
    /\ UNCHANGED <<ip_input, mask_input, info, wild, wcalls, manual, loopvars>>

\* the call of compute_subnet ends with the result r
ComputeEnds(r) ==
    IF r.raised
    THEN /\ pc' = "raised"
         /\ exc' = <<[cls |-> r.cls, msg |-> r.msg]>>
         /\ info' = info
    ELSE /\ pc' = "computed"
         /\ info' = <<r.val>>
         /\ exc' = exc

\* info = compute_subnet(ip, prefix)
ComputeSubnet ==
    /\ pc = "parsed"
    /\ ComputeEnds(compute_subnet(ret[1].ip, ret[1].prefix))
    /\ UNCHANGED <<ip_input, mask_input, ret, wild, wcalls, manual, loopvars>>

\* the call of wildcard_from_netmask ends with the result r
WildcardEnds(r) == ~r.raised /\ wild' = <<r.val>>

\* wildcard_from_netmask(IPv4Address(info.netmask)), then again on its result
WildcardFromNetmask ==
    /\ pc = "computed"
    /\ wcalls < 2
    /\ WildcardEnds(wildcard_from_netmask(
           IF wcalls = 0 THEN IPv4AddressFromText(info[1].netmask).val ELSE wild[1]))
    /\ wcalls' = wcalls + 1
    /\ UNCHANGED <<ip_input, mask_input, pc, ret, exc, info, manual, loopvars>>

\* the call of manual_compute_subnet ends with the result r
ManualEnds(r) == manual' = <<r>>

\* manual_compute_subnet(ip_input, mask_input), once the library path is done
ManualComputeSubnet ==
    /\ pc \in {"computed", "raised"}
    /\ manual = <<>>
    /\ ManualEnds(manual_compute_subnet(ip_input, mask_input))
    /\ UNCHANGED <<ip_input, mask_input, pc, ret, exc, info, wild, wcalls, loopvars>>

Next ==
    ParseIpAndMask \/ ComputeSubnet \/ WildcardFromNetmask \/ ManualComputeSubnet

Spec == Init /\ [][Next]_vars

---------------------------------------------------------------------------
(* src/subnetter_v6.py: the prompt loop of main (subnetter_v5.py has the    *)
(* same loop)                                                              *)

UpperChars ==
    <<"A", "B", "C", "D", "E", "F", "G", "H", "I", "J", "K", "L", "M",
      "N", "O", "P", "Q", "R", "S", "T", "U", "V", "W", "X", "Y", "Z">>

LowerChars ==
    <<"a", "b", "c", "d", "e", "f", "g", "h", "i", "j", "k", "l", "m",
      "n", "o", "p", "q", "r", "s", "t", "u", "v", "w", "x", "y", "z">>

LowerChar(c) ==
    IF \E i \in 1..26 : UpperChars[i] = c
    THEN LowerChars[CHOOSE i \in 1..26 : UpperChars[i] = c]
    ELSE c

\* s.lower()
Lower(s) == [i \in 1..Len(s) |-> LowerChar(s[i])]

\* line 143: {"q", "quit", "exit"}
QuitWords == { <<"q">>, <<"q", "u", "i", "t">>, <<"e", "x", "i", "t">> }

\* lines typed at the IP prompt
IpEntries ==
    { <<>>, <<"q">>, <<" ", "Q", "U", "I", "T", " ">>, <<"E", "x", "i", "t">>,
      <<"1", "0", ".", "0", ".", "0", ".", "1">>,
      <<"1", "9", "2", ".", "1", "6", "8", ".", "1", ".", "1", "0">>,
      <<"1", "0", ".", "0", ".", "0", ".", "1", "/", "8">>,
      <<"1", "9", "2", ".", "1", "6", "8", ".", "1", ".", "1", "0", "/", "2", "4">>,
      <<"9", "9", "9", ".", "0", ".", "0", ".", "1">>,
      <<"1", "0", ".", "0", ".", "0", ".", "1", "/", "3", "3">>,
      <<"2", "0", "0", "1", ":", "d", "b", "8", ":", ":", "/", "3", "2">> }

\* lines typed at the mask prompt
MaskEntries ==
    { <<>>, <<"/", "2", "4">>, <<" ", "2", "5", "5", ".", "2", "5", "5", ".", "0", ".", "0">>,
      <<"/", "3", "3">>, <<"q">>, <<"0", ".", "0", ".", "0", ".", "2", "5", "5">> }

\* subnetter_v6.py parse_ip_and_mask: the calculator's, but for the text of
\* line 62
V6Message(r) ==
    IF r.raised /\ r.msg = "CIDR must be between /0 and /32."
    THEN Raise(r.cls, "CIDR must be /0..../32")
    ELSE r

parse_ip_and_mask_v6(ip_text, mask_arg) ==
    V6Message(parse_ip_and_mask(ip_text, mask_arg))

LoopInit ==
    /\ pc = "ip_prompt"
    /\ ip_input = <<>>
    /\ mask_input = None
    /\ ret = <<>>
    /\ exc = <<>>
    /\ info = <<>>
    /\ wild = <<>>
    /\ wcalls = 0
    /\ manual = <<>>
    /\ LoopStart

Line(prompt, text) == [kind |-> "line", prompt |-> prompt, text |-> text]

Printed(kind, text) == [kind |-> kind, text |-> text]

\* no call of parse_ip_and_mask in this step
NoCall ==
    /\ ret' = <<>>
    /\ exc' = <<>>
    /\ info' = <<>>
    /\ UNCHANGED <<ip_input, mask_input, wild, wcalls, manual>>

\* lines 152-178 with a CIDR entry leaving the remembered mask alone
CallEnds_KeepMask(ip_text, mask_arg, r, c) ==
    /\ ip_input' = ip_text
    /\ mask_input' = mask_arg
    /\ ret' = IF r.raised THEN <<>> ELSE <<r.val>>
    /\ exc' = IF c.raised THEN <<[cls |-> c.cls, msg |-> c.msg]>> ELSE <<>>
    /\ info' = IF c.raised THEN <<>> ELSE <<c.val>>
    /\ last_ip' = IF r.raised THEN last_ip ELSE ip_text
    /\ last_mask' = IF r.raised \/ mask_arg = None THEN last_mask ELSE mask_arg
    /\ hist_ip' = IF r.raised THEN hist_ip ELSE ip_text
    /\ hist_mask' = IF r.raised \/ mask_arg = None THEN hist_mask ELSE mask_arg
    /\ printed' = IF r.raised THEN Printed("error", r.msg)
                  ELSE IF c.raised THEN Printed("compute_error", c.msg)
                  ELSE Printed("report", "")
    /\ pc' = "ip_prompt"
    /\ UNCHANGED <<wild, wcalls, manual>>

\* lines 152-178 with the entry remembered before the parse is attempted
CallEnds_RememberFirst(ip_text, mask_arg, r, c) ==
    /\ ip_input' = ip_text
    /\ mask_input' = mask_arg
    /\ ret' = IF r.raised THEN <<>> ELSE <<r.val>>
    /\ exc' = IF c.raised THEN <<[cls |-> c.cls, msg |-> c.msg]>> ELSE <<>>
    /\ info' = IF c.raised THEN <<>> ELSE <<c.val>>
    /\ last_ip' = ip_text
    /\ last_mask' = mask_arg
    /\ hist_ip' = IF r.raised THEN hist_ip ELSE ip_text
    /\ hist_mask' = IF r.raised \/ mask_arg = None THEN hist_mask ELSE mask_arg
    /\ printed' = IF r.raised THEN Printed("error", r.msg)
                  ELSE IF c.raised THEN Printed("compute_error", c.msg)
                  ELSE Printed("report", "")
    /\ pc' = "ip_prompt"
    /\ UNCHANGED <<wild, wcalls, manual>>

\* lines 152-178: the call parse_ip_and_mask(ip_text, mask_arg) ended with r
\* and, if it returned, compute_subnet ended with c; a success is remembered,
\* a failure is printed, and the loop continues
CallEnds(ip_text, mask_arg, r, c) ==
    /\ ip_input' = ip_text
    /\ mask_input' = mask_arg
    /\ ret' = IF r.raised THEN <<>> ELSE <<r.val>>
    /\ exc' = IF c.raised THEN <<[cls |-> c.cls, msg |-> c.msg]>> ELSE <<>>
    /\ info' = IF c.raised THEN <<>> ELSE <<c.val>>
    /\ last_ip' = IF r.raised THEN last_ip ELSE ip_text
    /\ last_mask' = IF r.raised THEN last_mask ELSE mask_arg
    /\ hist_ip' = IF r.raised THEN hist_ip ELSE ip_text
    /\ hist_mask' = IF r.raised \/ mask_arg = None THEN hist_mask ELSE mask_arg
    /\ printed' = IF r.raised THEN Printed("error", r.msg)
                  ELSE IF c.raised THEN Printed("compute_error", c.msg)
                  ELSE Printed("report", "")
    /\ pc' = "ip_prompt"
    /\ UNCHANGED <<wild, wcalls, manual>>

ComputeAfter(r) == Then(r, LAMBDA v : compute_subnet(v.ip, v.prefix))

Call(ip_text, mask_arg, r) == CallEnds(ip_text, mask_arg, r, ComputeAfter(r))

\* the IP text of an entry at the IP prompt, lines 145-149
IpOf(s) == IF s = <<>> THEN last_ip ELSE s

\* lines 142-144: q, quit or exit at the IP prompt
IpQuit ==
    /\ pc = "ip_prompt"
    /\ \E e \in IpEntries :
          /\ Lower(Strip(e)) \in QuitWords
          /\ event' = Line("ip", Strip(e))
    /\ pc' = "exited"
    /\ printed' = Printed("nothing", "")
    /\ NoCall
    /\ UNCHANGED <<last_ip, last_mask, ip_entry, hist_ip, hist_mask>>

\* lines 145-148: an empty IP entry with nothing to reuse
IpNoPrevious ==
    /\ pc = "ip_prompt"
    /\ <<>> \in {Strip(e) : e \in IpEntries}
    /\ last_ip = None \/ last_ip = <<>>
    /\ event' = Line("ip", <<>>)
    /\ printed' = Printed("no_previous", "No previous IP to reuse.")
    /\ pc' = "ip_prompt"
    /\ NoCall
    /\ UNCHANGED <<last_ip, last_mask, ip_entry, hist_ip, hist_mask>>

\* s has been typed at the IP prompt and is no quit word; the IP text to use
\* exists
IpUsable(s) ==
    /\ Lower(s) \notin QuitWords
    /\ s = <<>> => ~(last_ip = None \/ last_ip = <<>>)

IpCombinedEntered(s) ==
    /\ IpUsable(s)
    /\ Contains(IpOf(s), "/")
    /\ event' = Line("ip", s)
    /\ ip_entry' = IpOf(s)
    /\ Call(IpOf(s), None, parse_ip_and_mask_v6(IpOf(s), None))

\* lines 151-157 and 172-178: an entry with '/'
IpCombined ==
    /\ pc = "ip_prompt"
    /\ \E e \in IpEntries : IpCombinedEntered(Strip(e))

IpPlainEntered(s) ==
    /\ IpUsable(s)
    /\ ~Contains(IpOf(s), "/")
    /\ event' = Line("ip", s)
    /\ ip_entry' = IpOf(s)

\* lines 158-159: an entry without '/': on to the mask prompt
IpPlain ==
    /\ pc = "ip_prompt"
    /\ \E e \in IpEntries : IpPlainEntered(Strip(e))
    /\ pc' = "mask_prompt"
    /\ printed' = Printed("nothing", "")
    /\ NoCall
    /\ UNCHANGED <<last_ip, last_mask, hist_ip, hist_mask>>

\* lines 160-163: an empty mask entry with nothing to reuse
MaskNoPrevious ==
    /\ pc = "mask_prompt"
    /\ <<>> \in {Strip(e) : e \in MaskEntries}
    /\ last_mask = None \/ last_mask = <<>>
    /\ event' = Line("mask", <<>>)
    /\ printed' = Printed("no_previous", "No previous mask to reuse.")
    /\ pc' = "ip_prompt"
    /\ NoCall
    /\ UNCHANGED <<last_ip, last_mask, ip_entry, hist_ip, hist_mask>>

MaskOf(s) == IF s = <<>> THEN last_mask ELSE s

MaskEntered(s) ==
    /\ s = <<>> => ~(last_mask = None \/ last_mask = <<>>)
    /\ event' = Line("mask", s)
    /\ Call(ip_entry, MaskOf(s), parse_ip_and_mask_v6(ip_entry, MaskOf(s)))

\* lines 159-178: a mask entry, typed or reused
MaskGiven ==
    /\ pc = "mask_prompt"
    /\ \E e \in MaskEntries : MaskEntered(Strip(e))
    /\ UNCHANGED ip_entry

\* lines 179-180: Ctrl-C at a prompt
KeyboardInterrupt ==
    /\ pc \in {"ip_prompt", "mask_prompt"}
    /\ event' = [kind |-> "KeyboardInterrupt",
                 prompt |-> IF pc = "ip_prompt" THEN "ip" ELSE "mask",
                 text |-> <<>>]
    /\ printed' = Printed("exiting", "Exiting...")
    /\ pc' = "exited"
    /\ NoCall
    /\ UNCHANGED <<last_ip, last_mask, ip_entry, hist_ip, hist_mask>>

\* lines 142 and 159: input() raises EOFError at the end of the input, which
\* no handler of main catches
EndOfInput ==
    /\ pc \in {"ip_prompt", "mask_prompt"}
    /\ event' = [kind |-> "EOFError",
                 prompt |-> IF pc = "ip_prompt" THEN "ip" ELSE "mask",
                 text |-> <<>>]
    /\ printed' = Printed("traceback", "EOFError: EOF when reading a line")
    /\ pc' = "crashed"
    /\ NoCall
    /\ UNCHANGED <<last_ip, last_mask, ip_entry, hist_ip, hist_mask>>

LoopNext ==
    \/ IpQuit
    \/ IpNoPrevious
    \/ IpCombined
    \/ IpPlain
    \/ MaskNoPrevious
    \/ MaskGiven
    \/ KeyboardInterrupt
    \/ EndOfInput

LoopSpec == LoopInit /\ [][LoopNext]_vars

---------------------------------------------------------------------------
(* Properties                                                              *)

\* the 32-bit value a dotted-decimal field of the result record stands for
W(t) == IpIntFromString(t).val

Computed == pc = "computed"

TextOf192_168_1_10 == TextOfOctets(<<192, 168, 1, 10>>)

TextOf10_0_0_1 == TextOfOctets(<<10, 0, 0, 1>>)

\* C1: for every address and every prefix in [0,32] the result's netmask is
\* the 32-bit value with the top `prefix` bits set and the rest clear, its
\* network is address AND netmask (so network AND netmask = network), and its
\* broadcast is network OR (2^(32-prefix) - 1).
C1_MaskNetworkBroadcast ==
    Computed =>
        LET a == ret[1].ip
            p == ret[1].prefix
            i == info[1]
        IN  /\ p \in Prefixes
            /\ i.netmask = TextOfOctets(NetmaskOctets(p))
            /\ W(i.network) = PyAnd(a, WordOfOctets(NetmaskOctets(p)))
            /\ PyAnd(W(i.network), W(i.netmask)) = W(i.network)
            /\ W(i.broadcast) =
                   PyOr(W(i.network), PySub(PyShl1(32 - p), PyInt(1)))

\* 192.168.1.10 with prefix 24 has been computed: network 192.168.1.0,
\* broadcast 192.168.1.255
C1_Witness ==
    /\ Computed
    /\ info[1].ip = TextOf192_168_1_10
    /\ info[1].cidr = 24
    /\ info[1].netmask = TextOfOctets(<<255, 255, 255, 0>>)
    /\ info[1].network = TextOfOctets(<<192, 168, 1, 0>>)
    /\ info[1].broadcast = TextOfOctets(<<192, 168, 1, 255>>)

\* C2: for every address and every prefix in [0,30], usable_hosts =
\* total_hosts - 2 >= 0, first_host = network + 1 and last_host = broadcast - 1.
C2_GeneralHostRange ==
    (Computed /\ ret[1].prefix \in 0..30) =>
        LET i == info[1]
        IN  /\ i.usable_hosts = PySub(i.total_hosts, PyInt(2))
            /\ PyLe(PyInt(0), i.usable_hosts)
            /\ W(i.first_host) = PyAdd(W(i.network), PyInt(1))
            /\ W(i.last_host) = PySub(W(i.broadcast), PyInt(1))

\* 10.0.0.1 with prefix 30 has been computed: 4 addresses, 2 usable,
\* hosts 10.0.0.1 to 10.0.0.2
C2_Witness ==
    /\ Computed
    /\ info[1].ip = TextOf10_0_0_1
    /\ info[1].cidr = 30
    /\ info[1].total_hosts = PyInt(4)
    /\ info[1].usable_hosts = PyInt(2)
    /\ info[1].first_host = TextOf10_0_0_1
    /\ info[1].last_host = TextOfOctets(<<10, 0, 0, 2>>)

\* C3: with prefix 31, total_hosts = 2, usable_hosts = 2, first_host = network
\* and last_host = broadcast, not network + 1 and broadcast - 1.
C3_PointToPoint ==
    (Computed /\ ret[1].prefix = 31) =>
        LET i == info[1]
        IN  /\ i.total_hosts = PyInt(2)
            /\ i.usable_hosts = PyInt(2)
            /\ i.first_host = i.network
            /\ i.last_host = i.broadcast
            /\ W(i.first_host) # PyAdd(W(i.network), PyInt(1))
            /\ W(i.last_host) # PySub(W(i.broadcast), PyInt(1))

\* 192.168.1.10 with prefix 31 has been computed: hosts 192.168.1.10 and
\* 192.168.1.11
C3_Witness ==
    /\ Computed
    /\ info[1].ip = TextOf192_168_1_10
    /\ info[1].cidr = 31
    /\ info[1].usable_hosts = PyInt(2)
    /\ info[1].first_host = TextOf192_168_1_10
    /\ info[1].last_host = TextOfOctets(<<192, 168, 1, 11>>)

\* C4: with prefix 32, total_hosts = 1, usable_hosts = 1, and first_host,
\* last_host, network and broadcast are all the input address.
C4_SingleHost ==
    (Computed /\ ret[1].prefix = 32) =>
        LET i == info[1]
            address == StringFromIpInt(ret[1].ip)
        IN  /\ i.total_hosts = PyInt(1)
            /\ i.usable_hosts = PyInt(1)
            /\ i.first_host = address
            /\ i.last_host = address
            /\ i.network = address
            /\ i.broadcast = address
            /\ address = Strip(Split(ip_input, "/")[1])

\* 192.168.1.10 with prefix 32 has been computed and is its own network
C4_Witness ==
    /\ Computed
    /\ info[1].cidr = 32
    /\ info[1].usable_hosts = PyInt(1)
    /\ info[1].first_host = TextOf192_168_1_10
    /\ info[1].network = TextOf192_168_1_10

\* octet k (1..4) of a dotted-decimal field
OctetOf(t, k) == DecVal(Split(t, ".")[k])

\* C5: for every prefix in [0,32] the wildcard of the result is the
\* bit-for-bit complement of the netmask within 32 bits: wildcard AND netmask
\* = 0, wildcard OR netmask = 0xFFFFFFFF; and wildcard_from_netmask applied to
\* the netmask gives that wildcard, applied twice gives the netmask back.
C5_WildcardComplement ==
    Computed =>
        LET i == info[1]
        IN  /\ \A k \in 1..4 : OctetOf(i.wildcard, k) = 255 - OctetOf(i.netmask, k)
            /\ PyAnd(W(i.wildcard), W(i.netmask)) = PyInt(0)
            /\ PyOr(W(i.wildcard), W(i.netmask)) = ALL_ONES
            /\ wcalls = 1 => wild = <<W(i.wildcard)>>
            /\ wcalls = 2 => wild = <<W(i.netmask)>>

\* wildcard_from_netmask has been applied twice to 255.255.255.0, whose
\* wildcard in the result is 0.0.0.255
C5_Witness ==
    /\ Computed
    /\ wcalls = 2
    /\ info[1].netmask = TextOfOctets(<<255, 255, 255, 0>>)
    /\ info[1].wildcard = TextOfOctets(<<0, 0, 0, 255>>)
    /\ wild = <<WordOfOctets(<<255, 255, 255, 0>>)>>

\* the arguments "A/P" and "A" of the calls with a valid address and prefix
ValidCidrIps ==
    {CidrText(TextOfOctets(a), DecStr(p)) : a \in Addrs, p \in Prefixes}

ValidPlainIps == {TextOfOctets(a) : a \in Addrs}

\* the result record of parse_ip_and_mask then compute_subnet on the given
\* arguments: <<record>>, or <<>> when one of them raises
RecordOf(ip_in, mask_in) ==
    LET r == Then(parse_ip_and_mask(ip_in, mask_in),
                  LAMBDA v : compute_subnet(v.ip, v.prefix))
    IN  IF r.raised THEN <<>> ELSE <<r.val>>

\* C6: for every valid address A and every P in [0,32], "A/P", "A" with the
\* dotted netmask of P, and "A" with "/P" all parse and compute to the same
\* result record, which echoes A with its host bits and P.
C6_ShapesAgree ==
    (pc # "call" /\ mask_input = None /\ ip_input \in ValidCidrIps) =>
        LET parts == Split(ip_input, "/")
            P == DecVal(parts[2])
        IN  /\ pc # "raised"
            /\ Computed =>
                  /\ info[1].ip = parts[1]
                  /\ info[1].cidr = P
                  /\ RecordOf(parts[1], TextOfOctets(NetmaskOctets(P))) = info
                  /\ RecordOf(parts[1], Slash \o parts[2]) = info

\* "192.168.1.10/0" has been computed, and "192.168.1.10" with the mask
\* 0.0.0.0 gives the same record
C6_Witness ==
    /\ Computed
    /\ ip_input = CidrText(TextOf192_168_1_10, <<"0">>)
    /\ mask_input = None
    /\ info[1].ip = TextOf192_168_1_10
    /\ info[1].netmask = TextOfOctets(<<0, 0, 0, 0>>)
    /\ RecordOf(TextOf192_168_1_10, TextOfOctets(<<0, 0, 0, 0>>)) = info

\* the bits of a four-octet mask are k ones followed by 32 - k zeroes
OnesThenZeroes(t) == \E k \in Prefixes : t = TextOfOctets(NetmaskOctets(k))

\* C7: with a separate four-octet dotted mask, parse_ip_and_mask succeeds if
\* and only if the mask's bits are k ones followed by 32 - k zeroes, and then
\* returns prefix k; every other four-octet mask, an inverted mask such as
\* 0.0.0.255 included, is rejected.
C7_ContiguousMaskOnly ==
    (pc # "call" /\ ip_input \in ValidPlainIps /\ mask_input \in DottedMasks) =>
        /\ pc # "raised" <=> OnesThenZeroes(mask_input)
        /\ ret # <<>> => mask_input = TextOfOctets(NetmaskOctets(ret[1].prefix))

\* prefix texts that are no integer, or one outside [0,32]
BadPrefixes ==
    { <<"3", "3">>, <<"-", "1">>, <<"a", "b", "c">>, <<>>, <<"1", "2", "8">> }

\* address texts that are not four octets in [0,255]
MalformedAddrs ==
    { <<"9", "9", "9", ".", "0", ".", "0", ".", "1">>,
      <<"1", "0", ".", "0", ".", "0">>, <<>> }

CombinedBadPrefix ==
    /\ mask_input = None
    /\ \E a \in ValidPlainIps, q \in BadPrefixes : ip_input = CidrText(a, q)

SeparateBadPrefix ==
    /\ ip_input \in ValidPlainIps
    /\ \E q \in BadPrefixes : mask_input = Slash \o q

ErrOf(r) == [cls |-> r.cls, msg |-> r.msg]

\* the errors reported for a malformed address with a valid prefix
CombinedAddressErrors ==
    {ErrOf(parse_ip_and_mask(CidrText(a, <<"8">>), None)) : a \in MalformedAddrs}

SeparateAddressErrors ==
    {ErrOf(parse_ip_and_mask(a, <<"/", "8">>)) : a \in MalformedAddrs}

NotAnInterface ==
    [cls |-> "ValueError",
     msg |-> "does not appear to be an IPv4 or IPv6 interface"]

\* C8 as stated: a prefix that is non-numeric or outside [0,32] makes
\* parse_ip_and_mask fail with an error distinct from the one reported for a
\* malformed address, in the combined form and in the separate form, and no
\* prefix outside [0,32] is ever returned.
C8_DistinctPrefixError ==
    /\ (pc # "call" /\ CombinedBadPrefix) =>
           (pc = "raised" /\ exc[1] \notin CombinedAddressErrors)
    /\ (pc # "call" /\ SeparateBadPrefix) =>
           (pc = "raised" /\ exc[1] \notin SeparateAddressErrors)
    /\ ret # <<>> => ret[1].prefix \in 0..32

\* C8 as amended: such a prefix makes parse_ip_and_mask fail; in the separate
\* form "/P" with the CIDR-range or the int() error, distinct from the error
\* of a malformed address; in the combined form "A/P" with ip_interface's
\* error, the same one a malformed address gets; and no prefix outside [0,32]
\* is ever returned.
C8_PrefixErrors ==
    /\ (pc # "call" /\ CombinedBadPrefix) =>
           /\ pc = "raised"
           /\ exc = <<NotAnInterface>>
           /\ CombinedAddressErrors = {NotAnInterface}
    /\ (pc # "call" /\ SeparateBadPrefix) =>
           /\ pc = "raised"
           /\ exc[1].cls = "ValueError"
           /\ exc[1].msg \in {"CIDR must be between /0 and /32.",
                              "invalid literal for int() with base 10"}
           /\ exc[1] \notin SeparateAddressErrors
    /\ ret # <<>> => ret[1].prefix \in 0..32

\* "192.168.1.10/33" has been rejected with ip_interface's error
C8_Witness ==
    /\ pc = "raised"
    /\ ip_input = CidrText(TextOf192_168_1_10, <<"3", "3">>)
    /\ mask_input = None
    /\ exc = <<NotAnInterface>>

\* C9 as stated: without '/' in the first argument and with the mask None or
\* the empty string, parse_ip_and_mask fails with the missing-mask error,
\* before the address is validated, and returns nothing.
C9_MissingMaskNoneOrEmpty ==
    (pc # "call" /\ ~Contains(ip_input, "/") /\ mask_input \in {None, <<>>}) =>
        /\ pc = "raised"
        /\ exc = <<[cls |-> "ValueError", msg |-> MissingMask]>>
        /\ ret = <<>>
        /\ info = <<>>

\* C9 as amended: with the mask None it fails with the missing-mask error
\* before the address is validated; with the empty string as mask it
\* validates the address first (AddressValueError) and then fails on the
\* empty mask with ip_network's error, not the missing-mask error; it
\* returns nothing in either case.
C9_MissingMaskOnlyNone ==
    /\ (pc # "call" /\ ~Contains(ip_input, "/") /\ mask_input = None) =>
           /\ pc = "raised"
           /\ exc = <<[cls |-> "ValueError", msg |-> MissingMask]>>
           /\ ret = <<>>
           /\ info = <<>>
    /\ (pc # "call" /\ ~Contains(ip_input, "/") /\ mask_input = <<>>) =>
           /\ pc = "raised"
           /\ ret = <<>>
           /\ info = <<>>
           /\ IF Strip(ip_input) \in ValidPlainIps
              THEN exc = <<[cls |-> "ValueError",
                            msg |-> "does not appear to be an IPv4 or IPv6 network"]>>
              ELSE exc[1].cls = "AddressValueError"

\* the malformed address "999.0.0.1" with the mask None has been rejected
\* with the missing-mask error
C9_Witness ==
    /\ pc = "raised"
    /\ ip_input = <<"9", "9", "9", ".", "0", ".", "0", ".", "1">>
    /\ mask_input = None
    /\ exc = <<[cls |-> "ValueError", msg |-> MissingMask]>>

\* the (address, prefix) pair that "A/P" stands for
PairOfCidr(t) ==
    LET a == CHOOSE a \in Addrs : \E p \in Prefixes :
                 t = CidrText(TextOfOctets(a), DecStr(p))
        p == CHOOSE p \in Prefixes : t = CidrText(TextOfOctets(a), DecStr(p))
    IN  [ip |-> WordOfOctets(a), prefix |-> p]

\* C10 as stated: the combined form is selected when the first argument
\* contains '/' and the mask is None or empty: parse_ip_and_mask("A/P", "")
\* returns what parse_ip_and_mask("A/P", None) returns.
C10_EmptyMaskSelectsCombined ==
    (pc # "call" /\ ip_input \in ValidCidrIps /\ mask_input = <<>>) =>
        /\ pc # "raised"
        /\ ret = <<parse_ip_and_mask(ip_input, None).val>>

\* C10 as amended: the combined form is selected only when the mask is None:
\* parse_ip_and_mask("A/P", None) returns (A, P), and
\* parse_ip_and_mask("A/P", "") raises AddressValueError (unexpected '/').
C10_CombinedOnlyWhenNone ==
    /\ (pc # "call" /\ ip_input \in ValidCidrIps /\ mask_input = None) =>
           ret = <<PairOfCidr(ip_input)>>
    /\ (pc # "call" /\ ip_input \in ValidCidrIps /\ mask_input = <<>>) =>
           /\ pc = "raised"
           /\ exc = <<[cls |-> "AddressValueError", msg |-> "Unexpected '/'"]>>
           /\ ret = <<>>

\* "192.168.1.10/24" with the empty string as mask has been rejected
C10_Witness ==
    /\ pc = "raised"
    /\ ip_input = CidrText(TextOf192_168_1_10, <<"2", "4">>)
    /\ mask_input = <<>>
    /\ exc = <<[cls |-> "AddressValueError", msg |-> "Unexpected '/'"]>>
    /\ ret = <<>>

\* IPv6 literals, left of the '/' in a combined input
V6Literals ==
    { <<"2", "0", "0", "1", ":", "d", "b", "8", ":", ":">>, <<":", ":", "1">> }

\* prefix texts that IPv6 accepts, and ones it does not
V6GoodPrefixes == { <<"8">>, <<"3", "3">>, <<"1", "2", "8">> }

V6BadPrefixes == { <<"1", "2", "9">>, <<"a", "b", "c">>, <<>> }

V6Combined(prefixes) ==
    /\ mask_input = None
    /\ \E a \in V6Literals, q \in prefixes : ip_input = CidrText(a, q)

NotSupported ==
    [cls |-> "ValueError", msg |-> "IPv6 is not supported in this tool."]

\* a 32-bit value
IsWord32(w) == w[1] \in 0..(Limb - 1) /\ w[2] \in 0..(Limb - 1)

\* C11 as stated: a combined input whose address part is an IPv6 literal is
\* rejected with the unsupported-family error, distinct from the errors for
\* a malformed address and an invalid prefix, whatever its prefix value, and
\* parse_ip_and_mask never returns a non-IPv4 address.
C11_IPv6AnyPrefix ==
    /\ (pc # "call" /\ V6Combined(V6GoodPrefixes \cup V6BadPrefixes)) =>
           /\ pc = "raised"
           /\ exc = <<NotSupported>>
           /\ NotSupported \notin CombinedAddressErrors
    /\ ret # <<>> => IsWord32(ret[1].ip)

\* C11 as amended: such an input is rejected with the unsupported-family
\* error, distinct from the error for a malformed address, when its prefix is
\* an integer in [0,128]; with any other prefix text it is rejected with
\* ip_interface's error, the one a malformed address gets; parse_ip_and_mask
\* never returns a non-IPv4 address.
C11_IPv6Rejected ==
    /\ (pc # "call" /\ V6Combined(V6GoodPrefixes)) =>
           /\ pc = "raised"
           /\ exc = <<NotSupported>>
           /\ ret = <<>>
           /\ NotSupported \notin CombinedAddressErrors
    /\ (pc # "call" /\ V6Combined(V6BadPrefixes)) =>
           /\ pc = "raised"
           /\ exc = <<NotAnInterface>>
           /\ ret = <<>>
    /\ ret # <<>> => IsWord32(ret[1].ip)

\* "2001:db8::/33" has been rejected as IPv6
C11_Witness ==
    /\ pc = "raised"
    /\ ip_input = CidrText(<<"2", "0", "0", "1", ":", "d", "b", "8", ":", ":">>,
                           <<"3", "3">>)
    /\ mask_input = None
    /\ exc = <<NotSupported>>

\* the address text of a call: the stripped first argument, left of a '/'
AddressText == Split(Strip(ip_input), "/")[1]

\* t is exactly four components between dots, each a decimal integer in [0,255]
FourOctets(t) ==
    LET parts == Split(t, ".")
    IN  /\ Len(parts) = 4
        /\ \A i \in 1..4 : /\ Len(parts[i]) > 0
                           /\ \A j \in 1..Len(parts[i]) : parts[i][j] \in
                                  {"0", "1", "2", "3", "4", "5", "6", "7", "8", "9"}
                           /\ DecVal(parts[i]) <= 255

\* a[0]*2^24 + a[1]*2^16 + a[2]*2^8 + a[3] of the four components of t
ValueOfOctets(t) ==
    LET parts == Split(t, ".")
    IN  <<DecVal(parts[1]) * 256 + DecVal(parts[2]),
          DecVal(parts[3]) * 256 + DecVal(parts[4])>>

\* C12: in every form, parse_ip_and_mask rejects an address that is not
\* exactly four dot-separated integers in [0,255]; when it succeeds, the
\* returned address is the 32-bit value of those four octets, whatever the
\* mask.
C12_FourOctets ==
    /\ (pc # "call" /\ ~FourOctets(AddressText)) => (pc = "raised" /\ ret = <<>>)
    /\ ret # <<>> => (FourOctets(AddressText) /\ ret[1].ip = ValueOfOctets(AddressText))

\* "192.168.1.10/0" has been parsed: the all-zero mask leaves the address alone
C12_Witness ==
    /\ pc = "parsed"
    /\ ip_input = CidrText(TextOf192_168_1_10, <<"0">>)
    /\ mask_input = None
    /\ ret = <<[ip |-> <<192 * 256 + 168, 1 * 256 + 10>>, prefix |-> 0]>>

\* 2^32
TwoTo32 == <<Limb, 0>>

\* C13: compute_subnet returns a record and never raises for every address
\* and prefix in [0,32] that parse_ip_and_mask returns, the extremes
\* included: prefix 0, where total_hosts = 2^32, and prefix 32.
C13_ComputeTotal ==
    /\ ret # <<>> => /\ ret[1].prefix \in 0..32
                     /\ IsWord32(ret[1].ip)
                     /\ pc \in {"parsed", "computed"}
                     /\ exc = <<>>
    /\ Computed => /\ info # <<>>
                   /\ info[1].cidr = ret[1].prefix
                   /\ ret[1].prefix = 0 => info[1].total_hosts = TwoTo32
                   /\ ret[1].prefix = 32 => info[1].total_hosts = PyInt(1)

\* 255.255.255.255 with prefix 0 has been computed: 2^32 addresses
C13_Witness ==
    /\ Computed
    /\ ret = <<[ip |-> ALL_ONES, prefix |-> 0]>>
    /\ info[1].total_hosts = TwoTo32
    /\ info[1].broadcast = TextOfOctets(<<255, 255, 255, 255>>)
    /\ info[1].network = TextOfOctets(<<0, 0, 0, 0>>)

\* 2^n for 0 <= n <= 32
TwoToThe(n) ==
    IF n = 32 THEN TwoTo32 ELSE IF n = 31 THEN <<2^15, 0>> ELSE PyInt(2^n)

\* C14: every result record has network <= address <= broadcast,
\* network <= first_host <= last_host <= broadcast, host_bits = 32 - prefix,
\* total_hosts = 2^host_bits = broadcast - network + 1, and its ip and cidr
\* fields echo the address and the prefix compute_subnet was called with.
C14_RecordInvariants ==
    Computed =>
        LET i == info[1]
        IN  /\ PyLe(W(i.network), W(i.ip)) /\ PyLe(W(i.ip), W(i.broadcast))
            /\ PyLe(W(i.network), W(i.first_host))
            /\ PyLe(W(i.first_host), W(i.last_host))
            /\ PyLe(W(i.last_host), W(i.broadcast))
            /\ i.host_bits = 32 - ret[1].prefix
            /\ i.total_hosts = TwoToThe(i.host_bits)
            /\ i.total_hosts = PyAdd(PySub(W(i.broadcast), W(i.network)), PyInt(1))
            /\ W(i.ip) = ret[1].ip
            /\ i.cidr = ret[1].prefix

\* 172.16.0.1 with prefix 12 has been computed: 172.16.0.0 to 172.31.255.255
C14_Witness ==
    /\ Computed
    /\ info[1].ip = TextOfOctets(<<172, 16, 0, 1>>)
    /\ info[1].cidr = 12
    /\ info[1].network = TextOfOctets(<<172, 16, 0, 0>>)
    /\ info[1].broadcast = TextOfOctets(<<172, 31, 255, 255>>)
    /\ info[1].host_bits = 20
    /\ info[1].total_hosts = PyInt(2^20)

\* the text right of the first '/' of the stripped first argument
RightOfSlash ==
    SubSeq(Strip(ip_input), Len(AddressText) + 2, Len(Strip(ip_input)))

\* q is an integer in [0,32] written in decimal digits
IsPrefixInt(q) ==
    /\ Len(q) > 0
    /\ \A j \in 1..Len(q) : q[j] \in {"0", "1", "2", "3", "4", "5", "6", "7", "8", "9"}
    /\ DecVal(q) <= 32

\* a combined call with a valid address left of the '/'
CombinedCall ==
    /\ pc # "call"
    /\ mask_input = None
    /\ Contains(ip_input, "/")
    /\ AddressText \in ValidPlainIps

SeparateCall ==
    /\ pc # "call"
    /\ ip_input \in ValidPlainIps
    /\ mask_input # None

\* the stripped mask is '/' followed by an integer in [0,32]
IsSlashPrefix(m) == Len(m) > 0 /\ m[1] = "/" /\ IsPrefixInt(Tail(m))

\* texts other than plain digits that int() reads, with their values
LenientInts ==
    { << <<" ", "8">>, 8 >>, << <<"+", "8">>, 8 >>, << <<"3", "_", "2">>, 32 >> }

ReturnsPrefix(k) == ret = <<[ip |-> ValueOfOctets(ip_input), prefix |-> k]>>

\* C16 as stated: in the separate-mask forms a mask is accepted only if it
\* is '/' followed by an integer in [0,32] or a four-octet dotted mask; any
\* other mask text, such as the bare integer "24", is rejected.
C16_SlashOrDotted ==
    (SeparateCall /\ ~IsSlashPrefix(Strip(mask_input))
                  /\ ~FourOctets(Strip(mask_input))) =>
        (pc = "raised" /\ ret = <<>>)

\* the outcome of a separate-mask call with the stripped mask m
SeparateOutcome(m) ==
    IF Len(m) > 0 /\ m[1] = "/"
    THEN IF IsPrefixInt(Tail(m)) THEN ReturnsPrefix(DecVal(Tail(m)))
         ELSE IF \E e \in LenientInts : e[1] = Tail(m)
         THEN \E e \in LenientInts : e[1] = Tail(m) /\ ReturnsPrefix(e[2])
         ELSE pc = "raised" /\ ret = <<>>
    ELSE IF IsPrefixInt(m) THEN ReturnsPrefix(DecVal(m))
    ELSE IF \E k \in Prefixes : m = TextOfOctets(NetmaskOctets(k))
    THEN \E k \in Prefixes : m = TextOfOctets(NetmaskOctets(k)) /\ ReturnsPrefix(k)
    ELSE IF \E k \in Prefixes : m = TextOfOctets(HostmaskOctets(k))
    THEN \E k \in Prefixes : m = TextOfOctets(HostmaskOctets(k)) /\ ReturnsPrefix(k)
    ELSE pc = "raised" /\ ret = <<>>

\* C16 as amended: in the separate-mask forms a mask is accepted only if,
\* stripped, it is '/' followed by text that int() reads as an integer in
\* [0,32], a bare integer in [0,32] in decimal digits, taken as the prefix
\* length, or a four-octet dotted netmask or hostmask; any other mask text
\* is rejected.
C16_SlashBareOrDotted == SeparateCall => SeparateOutcome(Strip(mask_input))

\* "192.168.1.10" with the mask "24" has been parsed to prefix 24
C16_Witness ==
    /\ pc = "parsed"
    /\ ip_input = TextOf192_168_1_10
    /\ mask_input = <<"2", "4">>
    /\ ret = <<[ip |-> <<192 * 256 + 168, 1 * 256 + 10>>, prefix |-> 24]>>

\* a call whose mask is "/P" or the dotted netmask of P, for a valid address
PrefixOrNetmaskCall ==
    /\ ip_input \in ValidPlainIps
    /\ \E k \in Prefixes : mask_input \in {Slash \o DecStr(k),
                                          TextOfOctets(NetmaskOctets(k))}

\* C17: for every valid address and every mask given as "/P" with P in
\* [0,32] or as the dotted netmask of P, manual_compute_subnet returns a
\* record that is field for field the record of compute_subnet.
C17_ManualAgrees ==
    (manual # <<>> /\ PrefixOrNetmaskCall) =>
        /\ Computed
        /\ ~manual[1].raised
        /\ manual[1].val = info[1]

\* both paths have computed 192.168.1.10 with the mask 255.255.255.0
C17_Witness ==
    /\ Computed
    /\ manual # <<>>
    /\ ip_input = TextOf192_168_1_10
    /\ mask_input = TextOfOctets(<<255, 255, 255, 0>>)
    /\ ~manual[1].raised
    /\ manual[1].val.network = TextOfOctets(<<192, 168, 1, 0>>)
    /\ manual[1].val = info[1]

\* a separate-mask call whose address text is not a valid address
BadAddressCall ==
    /\ pc # "call"
    /\ mask_input # None
    /\ Strip(ip_input) \notin ValidPlainIps

\* C18: parsing aborts at the first validation failure and reports it: in
\* the separate-mask forms the address is validated before the mask, so an
\* invalid address is reported as the address failure whether the mask is
\* valid or not, and a failed call returns no (address, prefix) pair.
C18_AddressFailureFirst ==
    /\ BadAddressCall =>
           /\ pc = "raised"
           /\ exc[1].cls = "AddressValueError"
           /\ exc[1] = ErrOf(parse_ip_and_mask(ip_input, <<"/", "8">>))
    /\ pc = "raised" => (ret = <<>> /\ info = <<>>)
    /\ exc # <<>> => pc = "raised"

\* "999.0.0.1" with the mask "/33" has been rejected for its address
C18_Witness ==
    /\ pc = "raised"
    /\ ip_input = <<"9", "9", "9", ".", "0", ".", "0", ".", "1">>
    /\ mask_input = <<"/", "3", "3">>
    /\ exc = <<[cls |-> "AddressValueError", msg |-> "Octet (> 255) not permitted"]>>
    /\ ret = <<>>

\* C19: in the prompt loop no parse or compute failure ends the loop: after
\* a failure its message is printed, no report is printed for the entry and
\* control is back at the IP prompt; the loop ends only when the IP entry is
\* q, quit or exit in any case, or on a keyboard interrupt.
C19_LoopEndsOnlyOnQuit ==
    /\ exc # <<>> => /\ pc = "ip_prompt"
                     /\ printed.kind \in {"error", "compute_error"}
                     /\ printed.text = exc[1].msg
                     /\ info = <<>>
    /\ printed.kind = "report" => (exc = <<>> /\ info # <<>>)
    /\ pc \notin {"ip_prompt", "mask_prompt"} =>
           \/ event.kind = "KeyboardInterrupt"
           \/ /\ event.kind = "line"
              /\ event.prompt = "ip"
              /\ Lower(event.text) \in QuitWords

\* the latest input() returned an empty line at the given prompt
EmptyEntry(prompt) == event = Line(prompt, <<>>)

NoPreviousPrinted ==
    /\ printed.kind = "no_previous"
    /\ pc = "ip_prompt"
    /\ ret = <<>>
    /\ info = <<>>

\* C20 as stated: an empty IP entry is replaced by the IP text of the most
\* recent successfully parsed entry, an empty mask entry by the mask text of
\* the most recent successfully parsed entry that supplied a mask; a failed
\* parse leaves the remembered IP and mask unchanged; with nothing
\* remembered the loop prints a 'no previous' message and re-prompts without
\* computing.
C20_ReuseMostRecent ==
    /\ last_ip = hist_ip
    /\ EmptyEntry("ip") =>
           IF hist_ip = None THEN NoPreviousPrinted ELSE ip_entry = hist_ip
    /\ EmptyEntry("mask") =>
           IF hist_mask = None THEN NoPreviousPrinted
           ELSE mask_input = hist_mask /\ printed.kind # "no_previous"

\* one step of the loop, as C20 is amended
C20_Step ==
    /\ (pc = "ip_prompt" /\ event' = Line("ip", <<>>)) =>
           IF last_ip = None
           THEN /\ printed'.kind = "no_previous"
                /\ pc' = "ip_prompt"
                /\ ret' = <<>> /\ info' = <<>>
           ELSE ip_entry' = last_ip
    /\ (pc = "mask_prompt" /\ event' = Line("mask", <<>>)) =>
           IF last_mask = None
           THEN /\ printed'.kind = "no_previous"
                /\ pc' = "ip_prompt"
                /\ ret' = <<>> /\ info' = <<>>
           ELSE ip_input' = ip_entry /\ mask_input' = last_mask
    /\ IF ret' # <<>>
       THEN /\ last_ip' = ip_input'
            /\ last_mask' = mask_input'
            /\ mask_input' = None <=> Contains(ip_input', "/")
       ELSE last_ip' = last_ip /\ last_mask' = last_mask

\* C20 as amended: the loop remembers the IP text and the mask text of the
\* most recent successfully parsed entry, the mask being None when that
\* entry was in "A/P" form; an empty IP entry is replaced by the remembered
\* IP and an empty mask entry by the remembered mask; a failed parse leaves
\* both unchanged; when the remembered value is None the loop prints a 'no
\* previous' message and re-prompts without computing.
C20_ReuseLatest == [][C20_Step]_vars

\* an empty mask entry found no mask to reuse although an earlier entry had
\* supplied one: a later "A/P" entry has reset it
C20_Witness ==
    /\ EmptyEntry("mask")
    /\ printed = Printed("no_previous", "No previous mask to reuse.")
    /\ last_mask = None
    /\ last_ip # None
    /\ hist_mask # None

\* C21: usable_hosts >= 1 for every prefix in [0,32]; for a prefix in [0,30]
\* total_hosts >= 4, so the total >= 4 guard takes the +1/-1 side, max(total
\* - 2, 0) does not clamp, and first_host and last_host lie strictly between
\* network and broadcast.
C21_GuardNeverFalls ==
    Computed =>
        LET i == info[1]
        IN  /\ PyLe(PyInt(1), i.usable_hosts)
            /\ i.cidr \in 0..30 =>
                  /\ PyLe(PyInt(4), i.total_hosts)
                  /\ PyLe(PyInt(2), PySub(i.total_hosts, PyInt(2)))
                  /\ PyAdd(i.usable_hosts, PyInt(2)) = i.total_hosts
                  /\ PyLt(W(i.network), W(i.first_host))
                  /\ PyLe(W(i.first_host), W(i.last_host))
                  /\ PyLt(W(i.last_host), W(i.broadcast))
                  /\ PySub(W(i.first_host), W(i.network)) = PyInt(1)
                  /\ PySub(W(i.broadcast), W(i.last_host)) = PyInt(1)

\* 192.168.1.10 with prefix 30 has been computed: the smallest network of the
\* general branch, 192.168.1.8 to 192.168.1.11 with hosts .9 and .10
C21_Witness ==
    /\ Computed
    /\ info[1].ip = TextOf192_168_1_10
    /\ info[1].cidr = 30
    /\ info[1].total_hosts = PyInt(4)
    /\ info[1].usable_hosts = PyInt(2)
    /\ info[1].network = TextOfOctets(<<192, 168, 1, 8>>)
    /\ info[1].first_host = TextOfOctets(<<192, 168, 1, 9>>)
    /\ info[1].last_host = TextOfOctets(<<192, 168, 1, 10>>)
    /\ info[1].broadcast = TextOfOctets(<<192, 168, 1, 11>>)

\* the result of parsing and computing the remembered pair
RememberedResult == ComputeAfter(parse_ip_and_mask_v6(last_ip, last_mask))

\* the remembered pair at an IP prompt
C22_Remembered ==
    (pc = "ip_prompt" /\ last_ip # None) =>
        /\ Contains(last_ip, "/") => last_mask = None
        /\ ~Contains(last_ip, "/") => (last_mask # None /\ Len(last_mask) > 0)
        /\ ~parse_ip_and_mask_v6(last_ip, last_mask).raised
        /\ ~RememberedResult.raised

\* the report of the remembered pair is printed and the pair is kept
C22_Recomputed ==
    /\ printed'.kind = "report"
    /\ pc' = "ip_prompt"
    /\ exc' = <<>>
    /\ info' = <<RememberedResult.val>>
    /\ ip_input' = last_ip
    /\ mask_input' = last_mask
    /\ UNCHANGED <<last_ip, last_mask>>

\* one step of the loop on an empty entry with an IP remembered
C22_Step ==
    /\ (/\ pc = "ip_prompt" /\ last_ip # None /\ Contains(last_ip, "/")
        /\ event' = Line("ip", <<>>)) =>
           /\ C22_Recomputed
           /\ printed.kind = "report" => info' = info
    /\ (/\ pc = "ip_prompt" /\ last_ip # None /\ ~Contains(last_ip, "/")
        /\ event' = Line("ip", <<>>)) =>
           /\ pc' = "mask_prompt"
           /\ ip_entry' = last_ip
           /\ UNCHANGED <<last_ip, last_mask>>
    /\ (/\ pc = "mask_prompt" /\ ip_entry = last_ip
        /\ event' = Line("mask", <<>>)) =>
           C22_Recomputed

\* C22: at every IP prompt of the loop, a remembered IP that contains '/'
\* comes with the remembered mask None, a remembered IP without '/' comes
\* with a non-empty remembered mask, and the remembered pair is one that
\* parse_ip_and_mask accepted; answering the prompts with empty input
\* recomputes the result of that pair and does not fail.
C22_RememberedPairAccepted == []C22_Remembered /\ [][C22_Step]_vars

\* both prompts were answered for the remembered pair 10.0.0.1 and /24 with
\* the mask entry empty, and its report was printed again
C22_Witness ==
    /\ pc = "ip_prompt"
    /\ EmptyEntry("mask")
    /\ ip_entry = last_ip
    /\ last_ip = TextOf10_0_0_1
    /\ last_mask = <<"/", "2", "4">>
    /\ ip_input = last_ip
    /\ mask_input = last_mask
    /\ printed.kind = "report"
    /\ info # <<>>
    /\ info[1].cidr = 24

=============================================================================
